---------------------------- MODULE Spec2Model ----------------------------
(***************************************************************************)
(* Key custody and signing engine of go-wallet (package services, package  *)
(* utils).  The process serves HTTP requests concurrently, one goroutine   *)
(* per request; every request runs one of GenerateKeyPair, GetAddress,     *)
(* SignMessage, VerifyMessage, CreateAndSendTransaction against the single *)
(* key file private_key.txt and the ledger client ethClient.               *)
(*                                                                         *)
(* Scaling.  The library arithmetic is kept, the widths are scaled down:   *)
(* a private scalar is ScalarBytes bytes (32 in go-ethereum), the group is *)
(* the cyclic group of prime order CurveN written additively with          *)
(* generator CurveG, a point's x-coordinate is XCoord (two opposite points *)
(* share it, as on the curve), digests are one byte wide.  The ECDSA       *)
(* equations, the low-s rule, the recovery byte, the hex codec and the     *)
(* length checks are computed as the library computes them.                *)
(***************************************************************************)
EXTENDS Integers, Sequences, FiniteSets, TLC

(***************************************************************************)
(* Widths and group parameters (scaled library constants).                 *)
(***************************************************************************)
ScalarBytes ==
    1

CurveN ==
    251

CurveG ==
    7

AddressLength ==
    1

GasLimit ==
    21000

FilePerm ==
    600

\* net/http status codes of the handlers' responses.
StatusOK ==
    200

StatusInternalServerError ==
    500

(***************************************************************************)
(* Bounds of the model.                                                    *)
(***************************************************************************)
\* Requests started in one run.
MaxOps ==
    3

\* The requests in flight at one time: the server runs every request in a
\* goroutine of its own, two of them are followed.
Procs ==
    {1, 2}

(***************************************************************************)
(* encoding/hex                                                            *)
(***************************************************************************)
HexChars ==
    <<"0","1","2","3","4","5","6","7","8","9","a","b","c","d","e","f">>

UpperHex ==
    <<"0","1","2","3","4","5","6","7","8","9","A","B","C","D","E","F">>

IsHexChar(c) ==
    \E i \in 1..16 : HexChars[i] = c \/ UpperHex[i] = c

fromHexChar(c) ==
    (CHOOSE i \in 1..16 : HexChars[i] = c \/ UpperHex[i] = c) - 1

RECURSIVE EncodeToString(_)
EncodeToString(bytes) ==
    IF bytes = <<>> THEN <<>>
    ELSE <<HexChars[(Head(bytes) \div 16) + 1], HexChars[(Head(bytes) % 16) + 1]>>
         \o EncodeToString(Tail(bytes))

\* hex.DecodeString: the bytes decoded before the first error, and the error.
RECURSIVE DecodeFrom(_, _)
DecodeFrom(s, acc) ==
    IF s = <<>> THEN [bytes |-> acc, err |-> "none"]
    ELSE IF ~IsHexChar(s[1]) THEN [bytes |-> acc, err |-> "InvalidByteError"]
    ELSE IF Len(s) = 1 THEN [bytes |-> acc, err |-> "ErrLength"]
    ELSE IF ~IsHexChar(s[2]) THEN [bytes |-> acc, err |-> "InvalidByteError"]
    ELSE DecodeFrom(SubSeq(s, 3, Len(s)),
                    Append(acc, 16 * fromHexChar(s[1]) + fromHexChar(s[2])))

DecodeString(s) ==
    DecodeFrom(s, <<>>)

(***************************************************************************)
(* Big-endian fixed-width integers (math.PaddedBigBytes, big.Int.SetBytes) *)
(***************************************************************************)
RECURSIVE PaddedBigBytes(_, _)
PaddedBigBytes(v, n) ==
    IF n = 0 THEN <<>>
    ELSE Append(PaddedBigBytes(v \div 256, n - 1), v % 256)

RECURSIVE SetBytes(_)
SetBytes(bytes) ==
    IF bytes = <<>> THEN 0
    ELSE 256 * SetBytes(SubSeq(bytes, 1, Len(bytes) - 1)) + bytes[Len(bytes)]

(***************************************************************************)
(* The group and ECDSA (go-ethereum crypto, libsecp256k1)                  *)
(***************************************************************************)
ScalarMult(k, P) ==
    (k * P) % CurveN

ScalarBaseMult(k) ==
    ScalarMult(k, CurveG)

XCoord(P) ==
    (P * P) % CurveN

YIsOdd(P) ==
    P > CurveN \div 2

ModInverse(a) ==
    CHOOSE x \in 1..(CurveN - 1) : (a * x) % CurveN = 1

\* crypto.FromECDSA
FromECDSA(d) ==
    PaddedBigBytes(d, ScalarBytes)

\* crypto.ToECDSA (strict): the length, the range, then the public point.
ToECDSA(bytes) ==
    IF Len(bytes) # ScalarBytes THEN [err |-> "invalid length", d |-> 0]
    ELSE IF SetBytes(bytes) >= CurveN THEN [err |-> "invalid private key, >=N", d |-> 0]
    ELSE IF SetBytes(bytes) <= 0 THEN [err |-> "invalid private key, zero or negative", d |-> 0]
    ELSE [err |-> "none", d |-> SetBytes(bytes)]

\* A key text with a "0x" in front, which hex.DecodeString refuses.
PrivateKeyHexPrefixed(d) ==
    <<"0", "x">> \o EncodeToString(FromECDSA(d))

\* The key written as big.Int.Text(16) writes it, without leading zeros (for
\* the one-byte scalar: one digit below 16).
PrivateKeyHexText(d) ==
    IF d < 16 THEN <<HexChars[d + 1]>> ELSE EncodeToString(FromECDSA(d))

\* hex.EncodeToString(crypto.FromECDSA(privateKey))
PrivateKeyHex(d) ==
    EncodeToString(FromECDSA(d))

\* privateKey.Public()
Public(d) ==
    ScalarBaseMult(d)

\* crypto.FromECDSAPub: the uncompressed encoding 0x04 || point.
FromECDSAPub(Q) ==
    <<4>> \o PaddedBigBytes(Q, ScalarBytes)

\* The digest behind an address (Keccak256 of the public point's bytes).
RECURSIVE Keccak256(_)
Keccak256(bytes) ==
    IF bytes = <<>> THEN 13
    ELSE (167 * Keccak256(SubSeq(bytes, 1, Len(bytes) - 1)) + bytes[Len(bytes)] + 1) % 256

\* crypto.PubkeyToAddress(pub).Hex(): "0x" and the trailing AddressLength bytes
\* of the digest of the point without its 0x04 marker.
PubkeyToAddress(Q) ==
    <<"0", "x">> \o
    EncodeToString(PaddedBigBytes(Keccak256(Tail(FromECDSAPub(Q))), AddressLength))

\* sha256.Sum256([]byte(message)), one byte wide.
RECURSIVE Sum256(_)
Sum256(message) ==
    IF message = <<>> THEN 99
    ELSE (31 * Sum256(SubSeq(message, 1, Len(message) - 1)) + message[Len(message)] + 7) % 256

\* The deterministic signing nonce (RFC 6979): a function of key and digest,
\* advanced until the signature's s is non-zero.
RECURSIVE NonceFrom(_, _, _)
NonceFrom(d, z, try) ==
    LET k == ((d * 57 + z * 131 + try * 17) % (CurveN - 1)) + 1
        r == XCoord(ScalarBaseMult(k)) % CurveN
    IN  IF r # 0 /\ (ModInverse(k) * (z + r * d)) % CurveN # 0
        THEN k
        ELSE NonceFrom(d, z, try + 1)

\* crypto.Sign(hash, prv): r || s || v with s in the lower half and v the
\* recovery id of the point the normalised pair recovers.
Sign(z, d) ==
    LET k == NonceFrom(d, z, 0)
        R == ScalarBaseMult(k)
        r == XCoord(R) % CurveN
        s == (ModInverse(k) * (z + r * d)) % CurveN
        high == s > CurveN \div 2
        v == IF YIsOdd(R) = high THEN 0 ELSE 1
    IN  PaddedBigBytes(r, ScalarBytes)
        \o PaddedBigBytes(IF high THEN CurveN - s ELSE s, ScalarBytes)
        \o <<v>>

\* crypto.VerifySignature(pubkey, hash, sig): sig is r || s, without v.
VerifySignature(Q, z, sig) ==
    IF Len(sig) # 2 * ScalarBytes THEN FALSE
    ELSE LET r == SetBytes(SubSeq(sig, 1, ScalarBytes))
             s == SetBytes(SubSeq(sig, ScalarBytes + 1, 2 * ScalarBytes))
         IN  IF r = 0 \/ r >= CurveN \/ s = 0 \/ s >= CurveN THEN FALSE
             ELSE IF s > CurveN \div 2 THEN FALSE
             ELSE LET w == ModInverse(s)
                      P == (ScalarBaseMult((z * w) % CurveN)
                            + ScalarMult((r * w) % CurveN, Q)) % CurveN
                  IN  P # 0 /\ XCoord(P) = r

(***************************************************************************)
(* Transactions (go-ethereum common, core/types)                           *)
(***************************************************************************)
\* common.FromHex: an optional 0x prefix, a leading zero for an odd length,
\* then the bytes hex.DecodeString yields, its error dropped.
FromHex(s) ==
    LET t == IF Len(s) >= 2 /\ s[1] = "0" /\ (s[2] = "x" \/ s[2] = "X")
             THEN SubSeq(s, 3, Len(s)) ELSE s
        u == IF Len(t) % 2 = 1 THEN <<"0">> \o t ELSE t
    IN  DecodeString(u).bytes

\* common.HexToAddress = BytesToAddress(FromHex(s)): longer input is cropped
\* from the left, shorter input is left-padded with zeros.  No input is refused.
HexToAddress(s) ==
    LET b == FromHex(s)
        c == IF Len(b) > AddressLength
             THEN SubSeq(b, Len(b) - AddressLength + 1, Len(b)) ELSE b
    IN  [i \in 1..(AddressLength - Len(c)) |-> 0] \o c

\* types.NewTransaction(nonce, to, amount, gasLimit, gasPrice, nil)
NewTransaction(nonce, to, amount, gasLimit, gasPrice) ==
    [nonce |-> nonce, to |-> to, value |-> amount,
     gas |-> gasLimit, gasPrice |-> gasPrice, data |-> <<>>]

\* EIP155Signer.Hash: the digest of (nonce, gasPrice, gas, to, value, data,
\* chainID, 0, 0).
SigHash(tx, chainID) ==
    Keccak256(<<tx.nonce % 256, tx.gasPrice % 256, tx.gas % 256>> \o tx.to
              \o <<tx.value % 256, chainID % 256, 0, 0>>)

\* Signing as types.HomesteadSigner does: the digest leaves the chain id out and
\* v = recid + 27.
SignTxHomestead(tx, chainID, d) ==
    LET sig == Sign(Keccak256(<<tx.nonce % 256, tx.gasPrice % 256, tx.gas % 256>> \o tx.to
                              \o <<tx.value % 256>>), d)
    IN  [tx |-> tx, chainID |-> chainID,
         r |-> SetBytes(SubSeq(sig, 1, ScalarBytes)),
         s |-> SetBytes(SubSeq(sig, ScalarBytes + 1, 2 * ScalarBytes)),
         v |-> sig[2 * ScalarBytes + 1] + 27]

\* types.SignTx(tx, NewEIP155Signer(chainID), prv): the transaction with
\* r, s and v = recid + 35 + 2 * chainID.
SignTx(tx, chainID, d) ==
    LET sig == Sign(SigHash(tx, chainID), d)
    IN  [tx |-> tx, chainID |-> chainID,
         r |-> SetBytes(SubSeq(sig, 1, ScalarBytes)),
         s |-> SetBytes(SubSeq(sig, ScalarBytes + 1, 2 * ScalarBytes)),
         v |-> sig[2 * ScalarBytes + 1] + 35 + 2 * chainID]

\* signedTx.Hash().Hex()
TxHashHex(stx) ==
    <<"0", "x">> \o
    EncodeToString(<<Keccak256(<<stx.tx.nonce % 256, stx.tx.gasPrice % 256, stx.tx.gas % 256>>
                               \o stx.tx.to
                               \o <<stx.tx.value % 256, stx.v % 256, stx.r, stx.s>>)>>)

(***************************************************************************)
(* Inputs                                                                  *)
(***************************************************************************)
\* Scalars crypto.GenerateKey may draw.
KeyPool ==
    {15, 240}

\* Request messages: "hi", "hi!".
Messages ==
    {<<104, 105>>, <<104, 105, 33>>}

\* Signature strings a caller may send besides the ones SignMessage returns:
\* empty, non-hex, odd length, one byte, four bytes.
ForgedSignatures ==
    {<<>>, <<"z", "z">>, <<"a", "b", "c">>, <<"0", "1">>,
     <<"0", "1", "0", "2", "0", "0", "0", "0">>}

\* Recipient strings: a well-formed address and one of the wrong length.
Recipients ==
    {<<"0", "x", "2", "a">>, <<"0", "x", "2">>}

Amounts ==
    {-1, 3}

\* The (recipient, value) pairs of the transaction requests.
Transfers ==
    {<<to, v>> \in Recipients \X Amounts : to = <<"0", "x", "2", "a">> \/ v >= 0}

GasPrices ==
    {2}

ChainIDs ==
    {1, 5}

\* The accounts the ledger may be asked about.
Accounts ==
    {PubkeyToAddress(Public(d)) : d \in KeyPool}

(***************************************************************************)
(* State                                                                   *)
(***************************************************************************)
VARIABLES
    file,      \* private_key.txt: exists, content (characters), mode
    pc,        \* each request's position
    op,        \* each request's operation
    arg,       \* each request's inputs
    loc,       \* each request's local variables
    ret,       \* each request's return values and response status
    ledger,    \* the ledger behind ethClient: pending nonce, accepted transactions
    genKeys,   \* history: encodings GenerateKeyPair returned since the last fault
    genBad,    \* history: a GenerateKeyPair failed or was cut off by a crash
    settled,   \* history: address of the last GenerateKeyPair that ran alone
    expect,    \* history: settled as of each request's start, cleared by a generate
    started    \* number of requests started

vars ==
    <<file, pc, op, arg, loc, ret, ledger, genKeys, genBad, settled, expect, started>>

NoAddress ==
    <<>>

NoTx ==
    [tx |-> NewTransaction(0, <<>>, 0, 0, 0), chainID |-> 0, r |-> 0, s |-> 0, v |-> 0]

Arg0 ==
    [message |-> <<>>, signatureHex |-> <<>>, toAddress |-> <<>>, value |-> 0]

Loc0 ==
    [key |-> 0, hex |-> <<>>, address |-> NoAddress, off |-> 0, buf |-> <<>>,
     alone |-> FALSE, calls |-> 0, nonce |-> 0, gasPrice |-> 0, signed |-> FALSE,
     signedTx |-> NoTx]

Ret0 ==
    [err |-> "none", out |-> <<>>, address |-> NoAddress, valid |-> FALSE, status |-> 0]

\* No key file: a fresh installation.
NoFile ==
    [exists |-> FALSE, content |-> <<>>, mode |-> 0]

\* A key file an operator put in place by hand, with the mode the shell gives
\* a new file.
InstalledFile ==
    [exists |-> TRUE, content |-> PrivateKeyHex(15), mode |-> 644]

Init ==
    /\ file = NoFile
    /\ pc = [p \in Procs |-> "idle"]
    /\ op = [p \in Procs |-> "none"]
    /\ arg = [p \in Procs |-> Arg0]
    /\ loc = [p \in Procs |-> Loc0]
    /\ ret = [p \in Procs |-> Ret0]
    /\ ledger = [nonce |-> [a \in Accounts |-> 0], accepted |-> {}]
    /\ genKeys = {}
    /\ genBad = FALSE
    /\ settled = NoAddress
    /\ expect = [p \in Procs |-> NoAddress]
    /\ started = 0

\* The process started beside a key file that is already there.
InitInstalled ==
    /\ file = InstalledFile
    /\ pc = [p \in Procs |-> "idle"]
    /\ op = [p \in Procs |-> "none"]
    /\ arg = [p \in Procs |-> Arg0]
    /\ loc = [p \in Procs |-> Loc0]
    /\ ret = [p \in Procs |-> Ret0]
    /\ ledger = [nonce |-> [a \in Accounts |-> 0], accepted |-> {}]
    /\ genKeys = {}
    /\ genBad = FALSE
    /\ settled = NoAddress
    /\ expect = [p \in Procs |-> NoAddress]
    /\ started = 0

Generating(p) ==
    pc[p] \in {"gen_open", "gen_write"}

\* A request slot is free before its first request and after a return.
Free(p) ==
    /\ pc[p] \in {"idle", "done"}
    /\ started < MaxOps

\* What a returned request still shows of its locals: the key it worked with
\* and what it did at the ledger.
Kept(l) ==
    [Loc0 EXCEPT !.key = l.key, !.calls = l.calls, !.signed = l.signed,
                 !.signedTx = l.signedTx]

\* The handler's response to what the service returned: any error, and a
\* panic caught by the server's recovery, is answered with status 500 and the
\* error text, everything else with status 200 and the values.
Respond(r) ==
    [r EXCEPT !.status = IF r.err # "none" THEN StatusInternalServerError ELSE StatusOK]

Return(p, r, l) ==
    /\ pc' = [pc EXCEPT ![p] = "done"]
    /\ ret' = [ret EXCEPT ![p] = Respond(r)]
    /\ loc' = [loc EXCEPT ![p] = Kept(l)]

Fail(err) ==
    [Ret0 EXCEPT !.err = err]

(***************************************************************************)
(* The key file (os, io/ioutil)                                            *)
(***************************************************************************)
\* os.OpenFile(name, O_WRONLY|O_CREATE|O_TRUNC, perm): the content is cut to
\* nothing; perm is applied only when the file is created.
OpenTrunc(f, perm) ==
    [exists |-> TRUE, content |-> <<>>,
     mode |-> IF f.exists THEN f.mode ELSE perm]

\* write(2) of chunk at offset off; a gap below the offset reads as NUL bytes.
WriteAt(content, off, chunk) ==
    LET n == IF Len(content) > off + Len(chunk) THEN Len(content) ELSE off + Len(chunk)
    IN  [i \in 1..n |->
            IF i > off /\ i <= off + Len(chunk) THEN chunk[i - off]
            ELSE IF i <= Len(content) THEN content[i]
            ELSE "NUL"]

(***************************************************************************)
(* GenerateKeyPair                                                         *)
(***************************************************************************)
\* A request arrives and crypto.GenerateKey draws the key; the hex text and
\* the address are computed from it.
StartGenerate(p) ==
    /\ Free(p)
    /\ started' = started + 1
    /\ op' = [op EXCEPT ![p] = "generate"]
    /\ arg' = [arg EXCEPT ![p] = Arg0]
    /\ ret' = [ret EXCEPT ![p] = Ret0]
    /\ \E d \in KeyPool :
          loc' = [q \in Procs |->
                    IF q = p
                    THEN [Loc0 EXCEPT !.key = d,
                                      !.hex = PrivateKeyHex(d),
                                      !.address = PubkeyToAddress(Public(d)),
                                      !.alone = ~(\E o \in Procs \ {p} : Generating(o))]
                    ELSE IF Generating(q) THEN [loc[q] EXCEPT !.alone = FALSE]
                    ELSE loc[q]]
    /\ pc' = [pc EXCEPT ![p] = "gen_open"]
    /\ settled' = NoAddress
    /\ expect' = [q \in Procs |-> NoAddress]
    /\ UNCHANGED <<file, ledger, genKeys, genBad>>

\* crypto.GenerateKey reports an error: GenerateKeyPair returns it before it
\* touches the file.
GenerateKeyError(p) ==
    /\ Free(p)
    /\ started' = started + 1
    /\ op' = [op EXCEPT ![p] = "generate"]
    /\ arg' = [arg EXCEPT ![p] = Arg0]
    /\ Return(p, Fail("GenerateKey"), Loc0)
    /\ genBad' = TRUE
    /\ settled' = NoAddress
    /\ expect' = [q \in Procs |-> NoAddress]
    /\ UNCHANGED <<file, ledger, genKeys>>

\* What GenerateKeyPair leaves behind when it returns its values.
GenReturned(p) ==
    /\ Return(p, [Ret0 EXCEPT !.out = loc[p].hex, !.address = loc[p].address], loc[p])
    /\ genKeys' = genKeys \cup {loc[p].hex}
    /\ settled' = IF loc[p].alone THEN loc[p].address ELSE NoAddress

\* A GenerateKeyPair that leaves a key file that is already there as it is and
\* returns its values all the same.
GenOpenKeepExisting(p) ==
    /\ pc[p] = "gen_open"
    /\ IF file.exists
       THEN /\ file' = file
            /\ GenReturned(p)
       ELSE /\ file' = OpenTrunc(file, FilePerm)
            /\ pc' = [pc EXCEPT ![p] = "gen_write"]
            /\ UNCHANGED <<loc, ret, genKeys, settled>>
    /\ UNCHANGED <<op, arg, ledger, genBad, expect, started>>

\* ioutil.WriteFile, first half: the file is opened and truncated.
GenOpen(p) ==
    /\ pc[p] = "gen_open"
    /\ file' = OpenTrunc(file, FilePerm)
    /\ pc' = [pc EXCEPT ![p] = "gen_write"]
    /\ UNCHANGED <<op, arg, loc, ret, ledger, genKeys, genBad, settled, expect, started>>

\* ioutil.WriteFile, second half: File.Write hands the text to write(2) and
\* goes on with the rest when the system took only a part of it; after the
\* last part the file is closed and the values are returned.
GenWrite(p) ==
    /\ pc[p] = "gen_write"
    /\ \E n \in 1..(Len(loc[p].hex) - loc[p].off) :
          /\ file' = [file EXCEPT !.content =
                        WriteAt(file.content, loc[p].off,
                                SubSeq(loc[p].hex, loc[p].off + 1, loc[p].off + n))]
          /\ IF loc[p].off + n = Len(loc[p].hex)
             THEN GenReturned(p)
             ELSE /\ loc' = [loc EXCEPT ![p].off = loc[p].off + n]
                  /\ UNCHANGED <<pc, ret, genKeys, settled>>
    /\ UNCHANGED <<op, arg, ledger, genBad, expect, started>>

\* OpenFile or Write reports an error: GenerateKeyPair returns it, the file
\* stays as it is at that point.
GenIOError(p) ==
    /\ Generating(p)
    /\ Return(p, Fail("StorageFailure"), loc[p])
    /\ genBad' = TRUE
    /\ UNCHANGED <<file, op, arg, ledger, genKeys, settled, expect, started>>

(***************************************************************************)
(* loadKey and the operations that use the key                             *)
(***************************************************************************)
\* services.SignMessage after loadKey.
SignMessage(d, message) ==
    EncodeToString(Sign(Sum256(message), d))

\* VerifyMessage handing the whole decoded signature, recovery byte and all, to
\* VerifySignature.
VerifyMessageWhole(d, message, signatureHex) ==
    LET dec == DecodeString(signatureHex)
    IN  IF dec.err # "none" THEN Fail(dec.err)
        ELSE [Ret0 EXCEPT !.valid =
                VerifySignature(Public(d), Sum256(message), dec.bytes)]

\* VerifyMessage hashing only the first two bytes of the message.
VerifyMessagePrefix(d, message, signatureHex) ==
    LET dec == DecodeString(signatureHex)
        head == SubSeq(message, 1, IF Len(message) < 2 THEN Len(message) ELSE 2)
    IN  IF dec.err # "none" THEN Fail(dec.err)
        ELSE IF Len(dec.bytes) = 0 THEN Fail("panic: slice bounds out of range")
        ELSE [Ret0 EXCEPT !.valid =
                VerifySignature(Public(d), Sum256(head),
                                SubSeq(dec.bytes, 1, Len(dec.bytes) - 1))]

\* services.VerifyMessage after loadKey: the signature is decoded and its last
\* byte cut off; cutting the last byte off an empty slice is a run-time panic.
VerifyMessage(d, message, signatureHex) ==
    LET dec == DecodeString(signatureHex)
    IN  IF dec.err # "none" THEN Fail(dec.err)
        ELSE IF Len(dec.bytes) = 0 THEN Fail("panic: slice bounds out of range")
        ELSE [Ret0 EXCEPT !.valid =
                VerifySignature(Public(d), Sum256(message),
                                SubSeq(dec.bytes, 1, Len(dec.bytes) - 1))]

\* loadKey after ReadFile: the text is decoded and checked.
ParseKey(text) ==
    LET dec == DecodeString(text)
    IN  IF dec.err # "none" THEN [err |-> dec.err, d |-> 0]
        ELSE ToECDSA(dec.bytes)

\* A signature string with its recovery byte replaced.
WithRecoveryByte(signatureHex, v) ==
    SubSeq(signatureHex, 1, Len(signatureHex) - 2) \o EncodeToString(<<v>>)

\* The signatures SignMessage can return.
Signatures ==
    {SignMessage(d, m) : d \in KeyPool, m \in Messages}

\* The (message, signature) pairs of the verify requests: every message with
\* every signature SignMessage can return, and "hi" with the forged strings
\* and with its signatures carrying recovery byte 5.
VerifyRequests ==
    (Messages \X Signatures)
    \cup ({<<104, 105>>} \X ForgedSignatures)
    \cup {<<<<104, 105>>, WithRecoveryByte(SignMessage(d, <<104, 105>>), 5)>> : d \in KeyPool}

StartLoad(p, o, a) ==
    /\ Free(p)
    /\ started' = started + 1
    /\ op' = [op EXCEPT ![p] = o]
    /\ arg' = [arg EXCEPT ![p] = a]
    /\ ret' = [ret EXCEPT ![p] = Ret0]
    /\ loc' = [loc EXCEPT ![p] = Loc0]
    /\ pc' = [pc EXCEPT ![p] = "ld_stat"]
    /\ expect' = [expect EXCEPT ![p] = settled]
    /\ UNCHANGED <<file, ledger, genKeys, genBad, settled>>

StartGetAddress(p) ==
    StartLoad(p, "address", Arg0)

StartSignMessage(p) ==
    \E m \in Messages :
        StartLoad(p, "sign", [Arg0 EXCEPT !.message = m])

StartVerifyMessage(p) ==
    \E rq \in VerifyRequests :
        StartLoad(p, "verify", [Arg0 EXCEPT !.message = rq[1], !.signatureHex = rq[2]])

StartTransaction(p) ==
    \E t \in Transfers :
        StartLoad(p, "tx", [Arg0 EXCEPT !.toAddress = t[1], !.value = t[2]])

\* loadKey without the os.Stat check: for a missing file it is ReadFile that
\* fails, with the error of the storage.
LoadStatSkipped(p) ==
    /\ pc[p] = "ld_stat"
    /\ IF ~file.exists
       THEN Return(p, Fail("StorageFailure"), loc[p])
       ELSE /\ pc' = [pc EXCEPT ![p] = "ld_read"]
            /\ UNCHANGED <<ret, loc>>
    /\ UNCHANGED <<file, op, arg, ledger, genKeys, genBad, settled, expect, started>>

\* loadKey: os.Stat.
LoadStat(p) ==
    /\ pc[p] = "ld_stat"
    /\ IF ~file.exists
       THEN Return(p, Fail("private key file does not exist"), loc[p])
       ELSE /\ pc' = [pc EXCEPT ![p] = "ld_read"]
            /\ UNCHANGED <<ret, loc>>
    /\ UNCHANGED <<file, op, arg, ledger, genKeys, genBad, settled, expect, started>>

\* A loadKey that reads the file but then works with the key another request
\* left in memory, when there is one.
LoadReadCached(p) ==
    /\ pc[p] = "ld_read"
    /\ IF Len(file.content) > Len(loc[p].buf)
       THEN /\ loc' = [loc EXCEPT ![p].buf =
                          loc[p].buf \o SubSeq(file.content, Len(loc[p].buf) + 1, Len(file.content))]
            /\ UNCHANGED <<pc, ret>>
       ELSE LET k == IF \E q \in Procs \ {p} : loc[q].key # 0
                     THEN [err |-> "none",
                           d |-> loc[CHOOSE q \in Procs \ {p} : loc[q].key # 0].key]
                     ELSE ParseKey(loc[p].buf)
                l == [loc[p] EXCEPT !.key = k.d]
            IN  IF k.err # "none"
                THEN Return(p, Fail(k.err), loc[p])
                ELSE CASE op[p] = "address" ->
                            Return(p, [Ret0 EXCEPT !.address = PubkeyToAddress(Public(k.d))], l)
                       [] op[p] = "sign" ->
                            Return(p, [Ret0 EXCEPT !.out = SignMessage(k.d, arg[p].message)], l)
                       [] op[p] = "verify" ->
                            Return(p, VerifyMessage(k.d, arg[p].message, arg[p].signatureHex), l)
                       [] OTHER ->
                            /\ loc' = [loc EXCEPT ![p] =
                                         [Loc0 EXCEPT !.key = k.d,
                                                      !.address = PubkeyToAddress(Public(k.d)),
                                                      !.calls = 1]]
                            /\ pc' = [pc EXCEPT ![p] = "tx_nonce"]
                            /\ UNCHANGED ret
    /\ UNCHANGED <<file, op, arg, ledger, genKeys, genBad, settled, expect, started>>

\* loadKey: ioutil.ReadFile reads until a read returns nothing; each read
\* takes what the file holds beyond what was read so far.  At the end of the
\* file the key is parsed and the operation carries on with it:
\* GetAddress, SignMessage and VerifyMessage return, CreateAndSendTransaction
\* asks the ledger for the pending nonce.
LoadRead(p) ==
    /\ pc[p] = "ld_read"
    /\ IF Len(file.content) > Len(loc[p].buf)
       THEN /\ loc' = [loc EXCEPT ![p].buf =
                          loc[p].buf \o SubSeq(file.content, Len(loc[p].buf) + 1, Len(file.content))]
            /\ UNCHANGED <<pc, ret>>
       ELSE LET k == ParseKey(loc[p].buf)
                l == [loc[p] EXCEPT !.key = k.d]
            IN  IF k.err # "none"
                THEN Return(p, Fail(k.err), loc[p])
                ELSE CASE op[p] = "address" ->
                            Return(p, [Ret0 EXCEPT !.address = PubkeyToAddress(Public(k.d))], l)
                       [] op[p] = "sign" ->
                            Return(p, [Ret0 EXCEPT !.out = SignMessage(k.d, arg[p].message)], l)
                       [] op[p] = "verify" ->
                            Return(p, VerifyMessage(k.d, arg[p].message, arg[p].signatureHex), l)
                       [] OTHER ->
                            /\ loc' = [loc EXCEPT ![p] =
                                         [Loc0 EXCEPT !.key = k.d,
                                                      !.address = PubkeyToAddress(Public(k.d)),
                                                      !.calls = 1]]
                            /\ pc' = [pc EXCEPT ![p] = "tx_nonce"]
                            /\ UNCHANGED ret
    /\ UNCHANGED <<file, op, arg, ledger, genKeys, genBad, settled, expect, started>>

\* A loadKey that removes the key file it could not read.
LoadIOErrorRemove(p) ==
    /\ pc[p] = "ld_read"
    /\ Return(p, Fail("StorageFailure"), loc[p])
    /\ file' = NoFile
    /\ UNCHANGED <<op, arg, ledger, genKeys, genBad, settled, expect, started>>

\* ioutil.ReadFile reports an error.
LoadIOError(p) ==
    /\ pc[p] = "ld_read"
    /\ Return(p, Fail("StorageFailure"), loc[p])
    /\ UNCHANGED <<file, op, arg, ledger, genKeys, genBad, settled, expect, started>>

(***************************************************************************)
(* CreateAndSendTransaction after loadKey                                  *)
(***************************************************************************)
Calling(p) ==
    pc[p] \in {"tx_nonce", "tx_gas", "tx_chain", "tx_send"}

\* ethClient.PendingNonceAt answers; SuggestGasPrice is called.
LedgerNonce(p) ==
    /\ pc[p] = "tx_nonce"
    /\ loc' = [loc EXCEPT ![p].nonce = ledger.nonce[loc[p].address],
                          ![p].calls = loc[p].calls + 1]
    /\ pc' = [pc EXCEPT ![p] = "tx_gas"]
    /\ UNCHANGED <<file, op, arg, ret, ledger, genKeys, genBad, settled, expect, started>>

\* ethClient.SuggestGasPrice answers; the recipient is converted and
\* NetworkID is called.
LedgerGasPrice(p) ==
    /\ pc[p] = "tx_gas"
    /\ \E g \in GasPrices :
          loc' = [loc EXCEPT ![p].gasPrice = g, ![p].calls = loc[p].calls + 1]
    /\ pc' = [pc EXCEPT ![p] = "tx_chain"]
    /\ UNCHANGED <<file, op, arg, ret, ledger, genKeys, genBad, settled, expect, started>>

\* ethClient.NetworkID answers; the transaction is built and signed, and
\* SendTransaction encodes it (which fails for a negative value) and sends it.
LedgerChainID(p) ==
    /\ pc[p] = "tx_chain"
    /\ \E c \in ChainIDs :
          LET tx == NewTransaction(loc[p].nonce, HexToAddress(arg[p].toAddress),
                                   arg[p].value, GasLimit, loc[p].gasPrice)
              signedTx == SignTx(tx, c, loc[p].key)
          IN  IF arg[p].value < 0
              THEN Return(p, Fail("rlp: cannot encode negative big.Int"),
                          [loc[p] EXCEPT !.signed = TRUE, !.signedTx = signedTx])
              ELSE /\ loc' = [loc EXCEPT ![p].signed = TRUE, ![p].signedTx = signedTx,
                                         ![p].calls = loc[p].calls + 1]
                   /\ pc' = [pc EXCEPT ![p] = "tx_send"]
                   /\ UNCHANGED ret
    /\ UNCHANGED <<file, op, arg, ledger, genKeys, genBad, settled, expect, started>>

\* ethClient.SendTransaction answers: the ledger took the transaction, the
\* account's pending nonce moves past it, the hash is returned.
LedgerSend(p) ==
    /\ pc[p] = "tx_send"
    /\ ledger' = [nonce |-> [ledger.nonce EXCEPT ![loc[p].address] =
                               IF loc[p].signedTx.tx.nonce >= @
                               THEN loc[p].signedTx.tx.nonce + 1 ELSE @],
                  accepted |-> ledger.accepted \cup
                               {[from |-> loc[p].address, stx |-> loc[p].signedTx]}]
    /\ Return(p, [Ret0 EXCEPT !.out = TxHashHex(loc[p].signedTx)], loc[p])
    /\ UNCHANGED <<file, op, arg, genKeys, genBad, settled, expect, started>>

\* A failed ledger call after which the hash of the signed transaction, if
\* there is one, is returned beside the error.
LedgerErrorWithHash(p) ==
    /\ Calling(p)
    /\ Return(p, [Fail("NetworkUnavailable") EXCEPT
                    !.out = IF loc[p].signed THEN TxHashHex(loc[p].signedTx) ELSE <<>>],
              loc[p])
    /\ UNCHANGED <<file, op, arg, ledger, genKeys, genBad, settled, expect, started>>

\* A ledger error after which the transaction is signed all the same.
LedgerErrorSigned(p) ==
    /\ Calling(p)
    /\ Return(p, Fail("NetworkUnavailable"), [loc[p] EXCEPT !.signed = TRUE])
    /\ UNCHANGED <<file, op, arg, ledger, genKeys, genBad, settled, expect, started>>

\* A ledger call answers with an error: it is returned as it is.
LedgerError(p) ==
    /\ Calling(p)
    /\ Return(p, Fail("NetworkUnavailable"), loc[p])
    /\ UNCHANGED <<file, op, arg, ledger, genKeys, genBad, settled, expect, started>>

(***************************************************************************)
(* The process                                                             *)
(***************************************************************************)
\* The process dies with requests in flight and is started again: the
\* requests are gone, the file is what it was at that moment.
Crash ==
    /\ \E p \in Procs : pc[p] \notin {"idle", "done"}
    /\ pc' = [p \in Procs |-> "idle"]
    /\ op' = [p \in Procs |-> "none"]
    /\ arg' = [p \in Procs |-> Arg0]
    /\ loc' = [p \in Procs |-> Loc0]
    /\ ret' = [p \in Procs |-> Ret0]
    /\ expect' = [p \in Procs |-> NoAddress]
    /\ genBad' = (genBad \/ \E p \in Procs : Generating(p))
    /\ UNCHANGED <<file, ledger, genKeys, settled, started>>

\* The steps a request takes on its own, without waiting for the ledger.
ProgramStep(p) ==
    \/ GenOpen(p)
    \/ GenWrite(p)
    \/ LoadStat(p)
    \/ LoadRead(p)

\* Key generation, loadKey's steps, storage errors and crashes: part of every
\* specification below.
NextKeyStore ==
    \/ \E p \in Procs : StartGenerate(p)
    \/ \E p \in Procs : GenerateKeyError(p)
    \/ \E p \in Procs : GenOpen(p)
    \/ \E p \in Procs : GenWrite(p)
    \/ \E p \in Procs : GenIOError(p)
    \/ \E p \in Procs : LoadStat(p)
    \/ \E p \in Procs : LoadRead(p)
    \/ \E p \in Procs : LoadIOError(p)
    \/ Crash

NextSign ==
    \/ \E p \in Procs : StartSignMessage(p)
    \/ \E p \in Procs : StartVerifyMessage(p)

NextTx ==
    \/ \E p \in Procs : StartTransaction(p)
    \/ \E p \in Procs : LedgerNonce(p)
    \/ \E p \in Procs : LedgerGasPrice(p)
    \/ \E p \in Procs : LedgerChainID(p)
    \/ \E p \in Procs : LedgerSend(p)
    \/ \E p \in Procs : LedgerError(p)

\* The whole service.
Next ==
    \/ NextKeyStore
    \/ \E p \in Procs : StartGetAddress(p)
    \/ NextSign
    \/ NextTx

Spec ==
    Init /\ [][Next]_vars

\* /generate and /address.
NextStore ==
    \/ NextKeyStore
    \/ \E p \in Procs : StartGetAddress(p)

SpecStore ==
    Init /\ [][NextStore]_vars

\* /generate and /address beside a key file that was there at the start.
SpecInstalled ==
    InitInstalled /\ [][NextStore]_vars

\* /generate, /sign and /verify.
NextSigning ==
    \/ NextKeyStore
    \/ NextSign

SpecSign ==
    Init /\ [][NextSigning]_vars

\* /generate, /sign and /verify beside a key file that was there at the start.
SpecSignInstalled ==
    InitInstalled /\ [][NextSigning]_vars

\* /generate and /transaction.
NextTransfer ==
    \/ NextKeyStore
    \/ NextTx

SpecTx ==
    Init /\ [][NextTransfer]_vars

\* The scheduler runs every goroutine that can take a step; nothing makes the
\* ledger answer a call.
FairSpecTx ==
    SpecTx /\ \A p \in Procs : WF_vars(ProgramStep(p))

(***************************************************************************)
(* Properties                                                              *)
(***************************************************************************)
Returned(p, o) ==
    pc[p] = "done" /\ op[p] = o

\* The texts of the keys GenerateKeyPair can write.
KeyTexts ==
    {PrivateKeyHex(d) : d \in KeyPool}

\* loadKey's outcomes for a stored text that is not a key.
CorruptKey ==
    {"InvalidByteError", "ErrLength", "invalid length",
     "invalid private key, >=N", "invalid private key, zero or negative"}

\* C1: a GetAddress that starts after a GenerateKeyPair returned address A,
\* that generate having run with no other generate beside it and none having
\* started since, returns A without error (a read error of the storage
\* itself set aside).
C1_GenerateThenLoad ==
    \A p \in Procs :
        (Returned(p, "address") /\ expect[p] # NoAddress /\ ret[p].err # "StorageFailure")
            => (ret[p].err = "none" /\ ret[p].address = expect[p])

C1_Witness ==
    \E p \in Procs :
        /\ Returned(p, "address")
        /\ expect[p] # NoAddress
        /\ ret[p].err = "none"
        /\ ret[p].address = expect[p]

\* What the claims call a malformed signature: not hex, or not
\* 2 * ScalarBytes + 1 bytes, or a recovery byte other than 0 or 1.
MalformedSignature(signatureHex) ==
    LET dec == DecodeString(signatureHex)
    IN  \/ dec.err # "none"
        \/ Len(dec.bytes) # 2 * ScalarBytes + 1
        \/ dec.bytes[Len(dec.bytes)] \notin {0, 1}

\* C2: VerifyMessage given a malformed signature returns false or an encoding
\* error, and never panics.
C2_MalformedSignatureRejected ==
    \A p \in Procs :
        (Returned(p, "verify") /\ MalformedSignature(arg[p].signatureHex))
            => (ret[p].valid = FALSE /\ ret[p].err # "panic: slice bounds out of range")

\* C3: no load reads the file while a generate is between truncating it and
\* completing its write.
C3_LoadExcludesGenerate ==
    [][\A p \in Procs :
          LoadRead(p) => ~(\E q \in Procs : pc[q] = "gen_write")]_vars

\* C4: when every GenerateKeyPair call has returned its values, the file holds
\* the text of one of the keys returned, which loadKey accepts.
C4_GeneratesLeaveOneKey ==
    ((\A p \in Procs : ~Generating(p)) /\ genKeys # {} /\ ~genBad)
        => (file.content \in genKeys /\ ParseKey(file.content).err = "none")

\* C5: after a crash the file, if there is one, holds a complete key.
C5_CrashLeavesCompleteKey ==
    ((\A p \in Procs : pc[p] = "idle") /\ file.exists)
        => file.content \in KeyTexts

\* common.IsHexAddress: an optional 0x, then exactly 2 * AddressLength hex
\* characters.
IsHexAddress(str) ==
    LET t == IF Len(str) >= 2 /\ str[1] = "0" /\ (str[2] = "x" \/ str[2] = "X")
             THEN SubSeq(str, 3, Len(str)) ELSE str
    IN  Len(t) = 2 * AddressLength /\ \A i \in 1..Len(t) : IsHexChar(t[i])

\* C6: a transaction request whose recipient is not a well-formed address
\* makes no ledger call and, the key being there, fails with InvalidAddress.
C6_MalformedRecipientRejected ==
    \A p \in Procs :
        (op[p] = "tx" /\ ~IsHexAddress(arg[p].toAddress))
            => /\ loc[p].calls = 0
               /\ (pc[p] = "done" /\ loc[p].key # 0) => ret[p].err = "InvalidAddress"

\* C7: a transaction request with a negative value is never signed and, the
\* key being there and the ledger answering, fails with InvalidAmount.
C7_NegativeValueRejected ==
    \A p \in Procs :
        (op[p] = "tx" /\ arg[p].value < 0)
            => /\ ~loc[p].signed
               /\ (pc[p] = "done" /\ loc[p].key # 0 /\ ret[p].err # "NetworkUnavailable")
                     => ret[p].err = "InvalidAmount"

\* C8: the step in which a failed nonce, gas price or chain id call comes
\* back returns an error and no hash with nothing signed, and changes neither
\* the key file nor the ledger (nothing is broadcast) nor any other request.
C8_LedgerFailureAborts ==
    [][\A p \in Procs :
          (LedgerError(p) /\ pc[p] # "tx_send")
              => /\ pc'[p] = "done"
                 /\ ret'[p].err # "none"
                 /\ ret'[p].out = <<>>
                 /\ ~loc'[p].signed
                 /\ file' = file
                 /\ ledger' = ledger
                 /\ \A q \in Procs \ {p} :
                      pc'[q] = pc[q] /\ loc'[q] = loc[q] /\ ret'[q] = ret[q]]_vars

C8_Witness ==
    \E p \in Procs :
        /\ Returned(p, "tx")
        /\ ret[p].err = "NetworkUnavailable"
        /\ loc[p].calls = 3
        /\ ~loc[p].signed
        /\ file.content \in KeyTexts

\* C9: every transaction request returns, whether or not the ledger answers.
C9_TransactionReturns ==
    \A p \in Procs :
        (op[p] = "tx" /\ Calling(p)) ~> (pc[p] \in {"idle", "done"})

\* C10: a signature SignMessage returned for a message verifies for that
\* message under the key it was made with.
C10_SignThenVerify ==
    \A p \in Procs, q \in Procs :
        ( /\ Returned(p, "verify")
          /\ Returned(q, "sign")
          /\ ret[q].err = "none"
          /\ arg[p].message = arg[q].message
          /\ arg[p].signatureHex = ret[q].out
          /\ loc[p].key = loc[q].key )
            => (ret[p].err = "none" /\ ret[p].valid)

C10_Witness ==
    \E p \in Procs, q \in Procs :
        /\ Returned(p, "verify")
        /\ Returned(q, "sign")
        /\ ret[q].err = "none"
        /\ arg[p].message = arg[q].message
        /\ arg[p].signatureHex = ret[q].out
        /\ loc[p].key = loc[q].key
        /\ ret[p].valid

\* C11: a signature SignMessage returned for one message does not verify for a
\* different message under the same key: VerifyMessage returns false.
C11_OtherMessageRejected ==
    \A p \in Procs, q \in Procs :
        ( /\ Returned(p, "verify")
          /\ Returned(q, "sign")
          /\ ret[q].err = "none"
          /\ arg[p].message # arg[q].message
          /\ arg[p].signatureHex = ret[q].out
          /\ loc[p].key = loc[q].key )
            => (ret[p].err = "none" /\ ~ret[p].valid)

C11_Witness ==
    \E p \in Procs, q \in Procs :
        /\ Returned(p, "verify")
        /\ Returned(q, "sign")
        /\ ret[q].err = "none"
        /\ arg[p].message # arg[q].message
        /\ arg[p].signatureHex = ret[q].out
        /\ loc[p].key = loc[q].key
        /\ ret[p].err = "none"
        /\ ~ret[p].valid

\* The signature values of a signed transaction.
RawSignatureValues(stx) ==
    <<stx.v, stx.r, stx.s>>

\* C12: two transactions signed with the same key and equal in nonce, gas
\* price, gas limit, recipient and value, one under chain id 1 and one under
\* chain id 5, carry different signatures, their signed digests being different.
C12_ChainIdBound ==
    \A p \in Procs, q \in Procs :
        ( /\ loc[p].signed
          /\ loc[q].signed
          /\ loc[p].key = loc[q].key
          /\ loc[p].signedTx.tx = loc[q].signedTx.tx
          /\ loc[p].signedTx.chainID = 1
          /\ loc[q].signedTx.chainID = 5 )
            => /\ RawSignatureValues(loc[p].signedTx) # RawSignatureValues(loc[q].signedTx)
               /\ SigHash(loc[p].signedTx.tx, 1) # SigHash(loc[q].signedTx.tx, 5)

C12_Witness ==
    \E p \in Procs, q \in Procs :
        /\ loc[p].signed
        /\ loc[q].signed
        /\ loc[p].key = loc[q].key
        /\ loc[p].signedTx.tx = loc[q].signedTx.tx
        /\ loc[p].signedTx.chainID = 1
        /\ loc[q].signedTx.chainID = 5
        /\ RawSignatureValues(loc[p].signedTx) # RawSignatureValues(loc[q].signedTx)

\* The operations that begin with loadKey.
LoadOps ==
    {"address", "sign", "verify", "tx"}

\* loadKey's error for a missing key file.
NotProvisioned ==
    "private key file does not exist"

\* C13: with no key file, GetAddress and every other operation that loads the
\* key returns the NotProvisioned error, without a panic and without a key;
\* that error is none of the CorruptKey outcomes, which are returned only when
\* there is a file.
C13_NotProvisioned ==
    \A p \in Procs :
        (pc[p] = "done" /\ op[p] \in LoadOps)
            => /\ ~file.exists => (ret[p].err = NotProvisioned /\ loc[p].key = 0)
               /\ ret[p].err = NotProvisioned => ret[p].err \notin CorruptKey
               /\ ret[p].err \in CorruptKey => file.exists

C13_Witness ==
    \E p \in Procs, q \in Procs :
        /\ ~file.exists
        /\ Returned(p, "address")
        /\ ret[p].err = NotProvisioned
        /\ pc[q] = "done"
        /\ op[q] \in LoadOps \ {"address"}
        /\ ret[q].err = NotProvisioned

\* C14: a verify request whose signature string does not decode, the key being
\* there, is answered with a success response that carries valid = false.
C14_MalformedSignatureAnswered ==
    \A p \in Procs :
        ( /\ Returned(p, "verify")
          /\ loc[p].key # 0
          /\ DecodeString(arg[p].signatureHex).err # "none" )
            => (ret[p].status = StatusOK /\ ~ret[p].valid)

\* C15: get-address and sign-message answer a missing key file with status 404
\* and answer with a 5xx status only for other failures.
C15_NotProvisionedAnswered ==
    \A p \in Procs :
        (pc[p] = "done" /\ op[p] \in {"address", "sign"})
            => /\ ret[p].err = NotProvisioned => ret[p].status = 404
               /\ ret[p].status >= 500 => ret[p].err \notin {"none", NotProvisioned}

\* C16: whenever a GenerateKeyPair has returned its values, the key file has
\* mode 0600, also when the file was there before with a wider mode.
C16_OwnerOnlyMode ==
    \A p \in Procs :
        (Returned(p, "generate") /\ ret[p].err = "none")
            => file.mode = FilePerm

\* C17: the hex text of every private scalar has the fixed length of
\* 2 * ScalarBytes characters and decodes to exactly that scalar; so do the
\* text GenerateKeyPair returns and the text loadKey reads back after a
\* GenerateKeyPair that ran alone.
C17_HexRoundTrip ==
    /\ \A d \in 1..(CurveN - 1) :
          /\ Len(PrivateKeyHex(d)) = 2 * ScalarBytes
          /\ ParseKey(PrivateKeyHex(d)) = [err |-> "none", d |-> d]
    /\ \A p \in Procs :
          (Returned(p, "generate") /\ ret[p].err = "none")
              => /\ Len(ret[p].out) = 2 * ScalarBytes
                 /\ ParseKey(ret[p].out) = [err |-> "none", d |-> loc[p].key]
    /\ \A p \in Procs :
          (Returned(p, "address") /\ ret[p].err = "none" /\ expect[p] # NoAddress)
              => expect[p] = PubkeyToAddress(Public(loc[p].key))

C17_Witness ==
    \E p \in Procs, q \in Procs :
        /\ Returned(q, "generate")
        /\ ret[q].err = "none"
        /\ loc[q].key = 15
        /\ Returned(p, "address")
        /\ ret[p].err = "none"
        /\ expect[p] # NoAddress
        /\ loc[p].key = 15
        /\ file.content = ret[q].out

\* C18: VerifyMessage given a signature string that does not decode returns the
\* decoding error without having loaded the key, whether or not there is a key
\* file.
C18_SignatureCheckedFirst ==
    \A p \in Procs :
        (Returned(p, "verify") /\ DecodeString(arg[p].signatureHex).err # "none")
            => /\ ret[p].err = DecodeString(arg[p].signatureHex).err
               /\ loc[p].key = 0

\* C19: after a GenerateKeyPair that ran with no other generate beside it and
\* returned its values, and as long as no other generate starts, the key file
\* holds exactly the hex text of the key that call generated, whatever the
\* file held before.
C19_FileHoldsLatestKey ==
    settled # NoAddress
        => /\ file.exists
           /\ \E d \in KeyPool :
                 /\ settled = PubkeyToAddress(Public(d))
                 /\ file.content = PrivateKeyHex(d)

C19_Witness ==
    /\ settled # NoAddress
    /\ ~genBad
    /\ Cardinality(genKeys) = 2
    /\ \E d \in KeyPool :
          /\ settled = PubkeyToAddress(Public(d))
          /\ file.content = PrivateKeyHex(d)

\* A step of GetAddress, SignMessage, VerifyMessage or CreateAndSendTransaction.
ReadStep(p) ==
    \/ StartGetAddress(p)
    \/ StartSignMessage(p)
    \/ StartVerifyMessage(p)
    \/ StartTransaction(p)
    \/ LoadStat(p)
    \/ LoadRead(p)
    \/ LoadIOError(p)
    \/ LedgerNonce(p)
    \/ LedgerGasPrice(p)
    \/ LedgerChainID(p)
    \/ LedgerSend(p)
    \/ LedgerError(p)

\* C20: no step of GetAddress, SignMessage, VerifyMessage or
\* CreateAndSendTransaction, on a success path or an error path, creates,
\* changes or removes the key file; every step that changes it is a step of a
\* GenerateKeyPair.
C20_ReadOnlyOperations ==
    [][/\ \A p \in Procs : ReadStep(p) => file' = file
       /\ file' # file =>
             \E p \in Procs : op[p] = "generate" /\ (GenOpen(p) \/ GenWrite(p))]_vars

C20_Witness ==
    \E p \in Procs, q \in Procs :
        /\ Returned(p, "tx")
        /\ ret[p].err = "none"
        /\ Returned(q, "verify")
        /\ ret[q].valid
        /\ file.exists
        /\ file.content \in KeyTexts
        /\ file.mode = FilePerm

\* The positions of a CreateAndSendTransaction in the order of its steps: key
\* load, nonce, gas price, chain id (then signing), broadcast, return.
TxOrder ==
    <<"ld_stat", "ld_read", "tx_nonce", "tx_gas", "tx_chain", "tx_send", "done">>

TxPosition(at) ==
    CHOOSE i \in 1..Len(TxOrder) : TxOrder[i] = at

\* The ledger's record of a broadcast transaction of request p.
Broadcast(l) ==
    [from |-> PubkeyToAddress(Public(l.key)), stx |-> l.signedTx]

\* C21: a CreateAndSendTransaction moves through key load, nonce, gas price,
\* chain id, signing and broadcast in that order, one step at a time or out by
\* a return; it signs only when the chain id has arrived, with the key loaded
\* and the three ledger answers in hand; only the step in which the broadcast
\* succeeds hands a transaction to the ledger, exactly the signed one, and
\* only that step returns a hash; every other return carries the empty hash.
C21_TransactionStepOrder ==
    [][\A p \in Procs :
          ( /\ op[p] = "tx"
            /\ op'[p] = "tx"
            /\ pc[p] # "done"
            /\ (pc'[p] # pc[p] \/ loc'[p] # loc[p]) )
              => /\ \/ pc'[p] = pc[p]
                    \/ TxPosition(pc'[p]) = TxPosition(pc[p]) + 1
                    \/ pc'[p] = "done"
                 /\ (loc'[p].signed /\ ~loc[p].signed)
                       => /\ LedgerChainID(p)
                          /\ loc[p].key # 0
                          /\ loc[p].calls = 3
                 /\ pc'[p] = "tx_send" => loc'[p].signed
                 /\ IF LedgerSend(p)
                    THEN /\ loc[p].signed
                         /\ ledger'.accepted = ledger.accepted \cup {Broadcast(loc[p])}
                         /\ ret'[p].err = "none"
                         /\ ret'[p].out = TxHashHex(loc[p].signedTx)
                         /\ ret'[p].out # <<>>
                    ELSE /\ ledger' = ledger
                         /\ pc'[p] = "done" => (ret'[p].err # "none" /\ ret'[p].out = <<>>)]_vars

C21_Witness ==
    \E p \in Procs :
        /\ Returned(p, "tx")
        /\ ret[p].err = "none"
        /\ ret[p].out = TxHashHex(loc[p].signedTx)
        /\ loc[p].calls = 4
        /\ loc[p].signed
        /\ Broadcast(loc[p]) \in ledger.accepted

\* The key of the last GenerateKeyPair as request p found it at its start:
\* that generate ran alone and no generate has started since.
LatestKey(p) ==
    CHOOSE d \in KeyPool : PubkeyToAddress(Public(d)) = expect[p]

\* C22: a SignMessage or VerifyMessage that runs after a GenerateKeyPair (which
\* ran alone, no other generate having started since) works with the key that
\* generate stored, read from the file in that very call: SignMessage returns
\* the signature under the new key, VerifyMessage returns what the check
\* against the new key gives, and a signature SignMessage returned under an
\* earlier, different key is no longer found valid.  Read errors of the
\* storage itself are set aside.
C22_NoKeyCached ==
    /\ \A p \in Procs :
          (Returned(p, "sign") /\ expect[p] # NoAddress /\ ret[p].err # "StorageFailure")
              => /\ ret[p].err = "none"
                 /\ ret[p].out = SignMessage(LatestKey(p), arg[p].message)
    /\ \A p \in Procs :
          (Returned(p, "verify") /\ expect[p] # NoAddress /\ ret[p].err # "StorageFailure")
              => ret[p] = Respond(VerifyMessage(LatestKey(p), arg[p].message,
                                                arg[p].signatureHex))
    /\ \A p \in Procs, q \in Procs :
          ( /\ Returned(p, "verify")
            /\ expect[p] # NoAddress
            /\ ret[p].err # "StorageFailure"
            /\ Returned(q, "sign")
            /\ ret[q].err = "none"
            /\ arg[p].message = arg[q].message
            /\ arg[p].signatureHex = ret[q].out
            /\ PubkeyToAddress(Public(loc[q].key)) # expect[p] )
              => (ret[p].err = "none" /\ ~ret[p].valid)

C22_Witness ==
    \E p \in Procs, q \in Procs :
        /\ Returned(q, "sign")
        /\ ret[q].err = "none"
        /\ Returned(p, "verify")
        /\ expect[p] # NoAddress
        /\ arg[p].message = arg[q].message
        /\ arg[p].signatureHex = ret[q].out
        /\ PubkeyToAddress(Public(loc[q].key)) # expect[p]
        /\ loc[p].key = LatestKey(p)
        /\ ret[p].err = "none"
        /\ ~ret[p].valid

\* C23: no two different transactions the ledger took from one account, signed
\* for the same chain, carry the same nonce.
C23_NoncesDistinct ==
    \A a \in ledger.accepted, b \in ledger.accepted :
        ( /\ a.from = b.from
          /\ a.stx.chainID = b.stx.chainID
          /\ a.stx.tx.nonce = b.stx.tx.nonce )
            => a = b

=============================================================================
